---- MODULE Spec2Model ----
(***************************************************************************)
(* The ritsu proactor (src/src/lib.rs): Proactor::park, LocalHandle::push  *)
(* and cq_drain over an io_uring submission/completion ring, the oneshot   *)
(* ticket channel and the eventfd wake signal.                             *)
(*                                                                         *)
(* The ring follows the io-uring crate that lib.rs uses: an                *)
(* `available()` view of a queue is a private snapshot (head, tail) of the *)
(* shared ring indices.  A submission view publishes its tail when it is   *)
(* dropped; a completion view publishes its head on `sync()` and when it   *)
(* is dropped.  `Submitter::submit` hands the kernel the entries between   *)
(* the SHARED head and tail.                                               *)
(***************************************************************************)
EXTENDS Integers, Sequences, FiniteSets, Bags, TLC

(***************************************************************************)
(* Bounds of the model.                                                    *)
(*   MaxCalls   push, park and signal calls made in one behaviour          *)
(*   SqEntries  capacity of the submission queue (IoUring::new(256) in     *)
(*              Proactor::new; kept small so that the queue fills)         *)
(*   WordBits   width of the user_data word (u64 in the program)           *)
(***************************************************************************)
MaxCalls == 4
SqEntries == 1
WordBits == 16

(***************************************************************************)
(* Program constants: `0x00` and `0x00u64.wrapping_sub(1)`.                *)
(***************************************************************************)
EVENT_TOKEN == 0
TIMEOUT_TOKEN == (0 - 1) % (2 ^ WordBits)

Tickets == 1 .. MaxCalls
NoTicket == 0
NoValue == [user_data |-> EVENT_TOKEN, res |-> "none"]
NoEntry == [op |-> "none", user_data |-> EVENT_TOKEN]
Durations == {"None", "Zero", "Some"}
Errnos == {"EBUSY", "EIO"}

(***************************************************************************)
(* oneshot::Sender::into_raw / from_raw: the producer travels as the       *)
(* address of its heap slot.  Slot t lives at word address 8 * t.          *)
(***************************************************************************)
into_raw(t) == 8 * t

from_raw(ptr) ==
    IF \E t \in Tickets : into_raw(t) = ptr
    THEN CHOOSE t \in Tickets : into_raw(t) = ptr
    ELSE NoTicket

\* An entry built without the user_data call keeps the zeroed field.
user_data_NoTag(op, ud) == [op |-> op, user_data |-> 0]

user_data(op, ud) == [op |-> op, user_data |-> ud % (2 ^ WordBits)]

Completion(sqe) == [user_data |-> sqe.user_data, res |-> "done"]

VARIABLES
    alive,        \* the Proactor (strong owner of the ring) exists
    handles,      \* a LocalHandle has been handed out
    pc,           \* position of the owning thread
    sq,           \* published submission entries (shared head .. shared tail)
    inflight,     \* bag of entries the kernel has taken and not completed
    cqes,         \* every completion the kernel has posted, in report order
    cqHead,       \* shared completion head (count of entries released)
    dur,          \* park: argument
    cqIsNotEmpty, \* park: local `cq_is_not_empty`
    nowait,       \* park: local `nowait`
    sqAvailLen,   \* park: len() of the submission view at snapshot time
    sqLocal,      \* park: entries pushed into the view, tail not yet published
    cqAvailHead,  \* park: private head of the completion view
    cqAvailTail,  \* park: private tail of the completion view
    entry,        \* push: the entry being enqueued
    curTicket,    \* push: the ticket allocated by the running call
    nextTicket,   \* tickets allocated so far + 1
    tx,           \* ticket producer: "unalloc", "raw", "set"
    value,        \* ticket slot: the stored completion or NoValue
    rx,           \* ticket consumer: "unalloc", "held", "returned", "failed", "dropped"
    polled,       \* ticket consumer: outcome of its latest poll
    flag,         \* wake signal: pending flag
    evReady,      \* wake signal: the event object is readable
    pushResult,   \* result of the latest push call
    parkResult,   \* result of the latest park call
    deliverLog,   \* every Ticket::set call made by cq_drain, in order
    calls,        \* push, park and signal calls made
    hist          \* history of the running / latest call (see HistInit)

vars == <<alive, handles, pc, sq, inflight, cqes, cqHead, dur, cqIsNotEmpty,
          nowait, sqAvailLen, sqLocal, cqAvailHead, cqAvailTail, entry,
          curTicket, nextTicket, tx, value, rx, polled, flag, evReady,
          pushResult, parkResult, deliverLog, calls, hist>>

ringVars == <<sq, inflight, cqes, cqHead>>
parkVars == <<dur, cqIsNotEmpty, nowait, sqAvailLen, sqLocal, cqAvailHead, cqAvailTail>>
pushVars == <<entry, curTicket>>
ticketVars == <<nextTicket, tx, value, rx, polled, deliverLog>>
wakeVars == <<flag, evReady>>

(***************************************************************************)
(* History of the running (or latest) call, kept beside the program state: *)
(*   pendingAtCall  the wake signal was pending when park was called       *)
(*   blocked        the park call entered submit_and_wait(1)               *)
(*   sigInWait      signal() was called while park sat in submit_and_wait  *)
(*   mark           completions posted when park's submit step ended       *)
(*   wasFull        the push call found the submission queue full          *)
(*   flushed        the kernel accepted a flush during the push call       *)
(***************************************************************************)
HistInit ==
    [pendingAtCall |-> FALSE, blocked |-> FALSE, sigInWait |-> FALSE,
     mark |-> 0, wasFull |-> FALSE, flushed |-> FALSE]

Init ==
    /\ alive = TRUE
    /\ handles = FALSE
    /\ pc = "idle"
    /\ sq = <<>>
    /\ inflight = EmptyBag
    /\ cqes = <<>>
    /\ cqHead = 0
    /\ dur = "None"
    /\ cqIsNotEmpty = FALSE
    /\ nowait = FALSE
    /\ sqAvailLen = 0
    /\ sqLocal = <<>>
    /\ cqAvailHead = 0
    /\ cqAvailTail = 0
    /\ entry = NoEntry
    /\ curTicket = NoTicket
    /\ nextTicket = 1
    /\ tx = [t \in Tickets |-> "unalloc"]
    /\ value = [t \in Tickets |-> NoValue]
    /\ rx = [t \in Tickets |-> "unalloc"]
    /\ polled = [t \in Tickets |-> [state |-> "pending", item |-> NoValue]]
    /\ flag = FALSE
    /\ evReady = FALSE
    /\ pushResult = "none"
    /\ parkResult = "none"
    /\ deliverLog = <<>>
    /\ calls = 0
    /\ hist = HistInit

(***************************************************************************)
(* The ring.                                                               *)
(***************************************************************************)
RECURSIVE BagOfSeq(_)
BagOfSeq(s) ==
    IF s = <<>> THEN EmptyBag ELSE SetToBag({Head(s)}) (+) BagOfSeq(Tail(s))

\* The counts of entries one successful io_uring_enter may take from the
\* published submission queue: all of them, or fewer, but at least one.
TakeCounts == IF sq = <<>> THEN {0} ELSE 1 .. Len(sq)

\* Submitter::submit / submit_and_wait accepted by the kernel: n published
\* entries leave the submission queue and are in flight.
KernelTake(n) ==
    /\ sq' = SubSeq(sq, n + 1, Len(sq))
    /\ inflight' = inflight (+) BagOfSeq(SubSeq(sq, 1, n))

\* cq.available() / the completion view after sync(): the entries between
\* head and tail.
CqView(head, tail) == SubSeq(cqes, head + 1, tail)

\* The head a completion view stores into the shared ring (sync, drop).
CqRelease_Stale(localHead) == cqHead
CqRelease(localHead) == localHead

\* The tail a completion view holds after sync(): reloaded from the ring.
CqSyncTail_NoReload(oldTail) == oldTail
CqSyncTail(oldTail) == Len(cqes)

\* squeue push into a view whose tail is published at once (push's loop
\* body drops the view on `break`).
SqPush_Twice(q, e) == Append(Append(q, e), e)
SqPush(q, e) == Append(q, e)

(***************************************************************************)
(* cq_drain: the Ticket::set calls one drain makes, in order.              *)
(***************************************************************************)
IsSentinel_EventOnly(ud) == ud = EVENT_TOKEN
IsSentinel(ud) == ud = EVENT_TOKEN \/ ud = TIMEOUT_TOKEN

Reverse(s) == [i \in 1 .. Len(s) |-> s[Len(s) + 1 - i]]

cq_drain_Reversed(avail) ==
    SelectSeq(Reverse(avail), LAMBDA e : ~IsSentinel(e.user_data))

\* A drain that gives up at the first completion whose consumer is gone.
cq_drain_StopAtDropped(avail) ==
    LET gone == {i \in 1 .. Len(avail) :
                    /\ ~IsSentinel(avail[i].user_data)
                    /\ rx[from_raw(avail[i].user_data)] = "dropped"}
        stop == IF gone = {} THEN Len(avail)
                ELSE (CHOOSE i \in gone : \A j \in gone : i <= j) - 1
    IN  SelectSeq(SubSeq(avail, 1, stop), LAMBDA e : ~IsSentinel(e.user_data))

cq_drain(avail) ==
    SelectSeq(avail, LAMBDA e : ~IsSentinel(e.user_data))

\* oneshot::Sender::set for every call of a drain: the slot of the ticket
\* the pointer names holds the item and its producer is consumed.
LastFor(sets, t) ==
    LET idx == {i \in 1 .. Len(sets) : from_raw(sets[i].user_data) = t}
    IN  sets[CHOOSE i \in idx : \A j \in idx : j <= i]

Deliver(sets) ==
    /\ deliverLog' = deliverLog \o sets
    /\ value' = [t \in Tickets |->
                   IF \E i \in 1 .. Len(sets) : from_raw(sets[i].user_data) = t
                   THEN LastFor(sets, t) ELSE value[t]]
    /\ tx' = [t \in Tickets |->
                   IF \E i \in 1 .. Len(sets) : from_raw(sets[i].user_data) = t
                   THEN "set" ELSE tx[t]]

(***************************************************************************)
(* Wake signal (EventFd).                                                  *)
(***************************************************************************)
Signal ==
    /\ calls < MaxCalls
    /\ calls' = calls + 1
    /\ flag' = TRUE
    /\ evReady' = TRUE
    /\ hist' = [hist EXCEPT !.sigInWait = @ \/ pc = "park_wait"]
    /\ UNCHANGED <<alive, handles, pc, ringVars, parkVars, pushVars, ticketVars,
                   pushResult, parkResult>>

(***************************************************************************)
(* The kernel: an entry in flight completes and its completion is posted.  *)
(* A read of the event object completes only when the object is readable,  *)
(* and consumes its counter.                                               *)
(***************************************************************************)
KernelComplete ==
    /\ alive
    /\ \E e \in BagToSet(inflight) :
         /\ e.op = "readv_eventfd" => evReady
         /\ inflight' = inflight (-) SetToBag({e})
         /\ cqes' = Append(cqes, Completion(e))
         /\ evReady' = IF e.op = "readv_eventfd" THEN FALSE ELSE evReady
    /\ UNCHANGED <<alive, handles, pc, sq, cqHead, parkVars, pushVars, ticketVars,
                   flag, pushResult, parkResult, calls, hist>>

(***************************************************************************)
(* Proactor::handle, drop of the Proactor.                                 *)
(***************************************************************************)
handle ==
    /\ alive
    /\ pc = "idle"
    /\ handles' = TRUE
    /\ UNCHANGED <<alive, pc, ringVars, parkVars, pushVars, ticketVars, wakeVars,
                   pushResult, parkResult, calls, hist>>

\* A teardown that drains the completion queue before the ring goes.
DropProactor_Draining ==
    /\ alive
    /\ pc = "idle"
    /\ alive' = FALSE
    /\ Deliver(cq_drain(CqView(cqHead, Len(cqes))))
    /\ cqHead' = Len(cqes)
    /\ UNCHANGED <<handles, pc, sq, inflight, cqes, parkVars, pushVars,
                   nextTicket, rx, polled, wakeVars, pushResult, parkResult,
                   calls, hist>>

DropProactor ==
    /\ alive
    /\ pc = "idle"
    /\ alive' = FALSE
    /\ UNCHANGED <<handles, pc, ringVars, parkVars, pushVars, ticketVars, wakeVars,
                   pushResult, parkResult, calls, hist>>

(***************************************************************************)
(* Ticket consumers (oneshot::Receiver), used by the code that awaits them *)
(* on the owning thread between calls into the proactor.                   *)
(***************************************************************************)
Poll(t) ==
    /\ pc = "idle"
    /\ rx[t] = "returned"
    /\ polled' = [polled EXCEPT ![t] =
                    IF value[t] = NoValue
                    THEN [state |-> "pending", item |-> NoValue]
                    ELSE [state |-> "ready", item |-> value[t]]]
    /\ UNCHANGED <<alive, handles, pc, ringVars, parkVars, pushVars, nextTicket,
                   tx, value, rx, deliverLog, wakeVars, pushResult, parkResult,
                   calls, hist>>

\* The drop of a consumer that has not resolved; the drop of a resolved
\* one leaves nothing for the proactor to see.
DropConsumer(t) ==
    /\ pc = "idle"
    /\ rx[t] = "returned"
    /\ value[t] = NoValue
    /\ rx' = [rx EXCEPT ![t] = "dropped"]
    /\ UNCHANGED <<alive, handles, pc, ringVars, parkVars, pushVars, nextTicket,
                   tx, value, polled, deliverLog, wakeVars, pushResult,
                   parkResult, calls, hist>>

(***************************************************************************)
(* LocalHandle::push.                                                      *)
(***************************************************************************)
\* self.ring.upgrade(): the weak reference yields the ring while the
\* Proactor, its only strong owner, exists.
Upgrade_Always == TRUE
Upgrade == alive

\* The length the loop's submission view reports: the view is taken anew
\* from the shared indices on every iteration.
PushViewLen_Hoisted == IF hist.wasFull THEN SqEntries ELSE Len(sq)
PushViewLen == Len(sq)

\* Lines 173-181: upgrade, oneshot::channel(), into_raw into user_data.
PushCall ==
    /\ pc = "idle"
    /\ handles
    /\ IF ~Upgrade
       THEN /\ pushResult' = "NotConnected"
            /\ UNCHANGED <<pc, pushVars, ticketVars, hist, calls>>
       ELSE /\ calls < MaxCalls
            /\ calls' = calls + 1
            /\ nextTicket' = nextTicket + 1
            /\ curTicket' = nextTicket
            /\ tx' = [tx EXCEPT ![nextTicket] = "raw"]
            /\ rx' = [rx EXCEPT ![nextTicket] = "held"]
            /\ entry' = user_data("user", into_raw(nextTicket))
            /\ pushResult' = "running"
            /\ hist' = HistInit
            /\ pc' = "push_try"
            /\ UNCHANGED <<value, polled, deliverLog>>
    /\ parkResult' = "none"
    /\ UNCHANGED <<alive, handles, ringVars, parkVars, wakeVars>>

\* push returns Err(e): the entry and the consumer are dropped.
PushFail(e) ==
    /\ pushResult' = e
    /\ rx' = [rx EXCEPT ![curTicket] = "failed"]
    /\ entry' = NoEntry
    /\ curTicket' = NoTicket
    /\ pc' = "idle"

\* Lines 184-189: take the view, push the entry; Ok(rx) on success.
PushTry ==
    /\ pc = "push_try"
    /\ IF PushViewLen >= SqEntries
       THEN /\ pc' = "push_flush"
            /\ hist' = [hist EXCEPT !.wasFull = TRUE]
            /\ UNCHANGED <<sq, pushVars, rx, pushResult>>
       ELSE /\ sq' = SqPush(sq, entry)
            /\ pushResult' = "Ok"
            /\ rx' = [rx EXCEPT ![curTicket] = "returned"]
            /\ entry' = NoEntry
            /\ curTicket' = NoTicket
            /\ pc' = "idle"
            /\ UNCHANGED hist
    /\ UNCHANGED <<alive, handles, inflight, cqes, cqHead, parkVars, nextTicket,
                   tx, value, polled, deliverLog, wakeVars, parkResult, calls>>

\* Lines 191-198: submit(); on EBUSY drain the completions that are
\* available; any other error returns.
PushFlush ==
    /\ pc = "push_flush"
    /\ \/ \E n \in TakeCounts :
            /\ KernelTake(n)
            /\ hist' = [hist EXCEPT !.flushed = TRUE]
            /\ pc' = "push_try"
            /\ UNCHANGED <<cqHead, pushVars, tx, value, rx, deliverLog, pushResult>>
       \/ /\ Deliver(cq_drain(CqView(cqHead, Len(cqes))))
          /\ cqHead' = CqRelease(Len(cqes))
          /\ pc' = "push_retry"
          /\ UNCHANGED <<sq, inflight, pushVars, rx, pushResult, hist>>
       \/ \E e \in Errnos \ {"EBUSY"} :
            /\ PushFail(e)
            /\ UNCHANGED <<sq, inflight, cqHead, tx, value, deliverLog, hist>>
    /\ UNCHANGED <<alive, handles, cqes, parkVars, nextTicket, polled, wakeVars,
                   parkResult, calls>>

\* Line 195: the flush repeated after the drain; `?` returns any error.
PushRetry ==
    /\ pc = "push_retry"
    /\ \/ \E n \in TakeCounts :
            /\ KernelTake(n)
            /\ hist' = [hist EXCEPT !.flushed = TRUE]
            /\ pc' = "push_try"
            /\ UNCHANGED <<pushVars, rx, pushResult>>
       \/ \E e \in Errnos :
            /\ PushFail(e)
            /\ UNCHANGED <<sq, inflight, hist>>
    /\ UNCHANGED <<alive, handles, cqes, cqHead, parkVars, nextTicket, tx, value,
                   polled, deliverLog, wakeVars, parkResult, calls>>

(***************************************************************************)
(* Proactor::park.                                                         *)
(***************************************************************************)
\* Lines 116-118.
Nowait_NoEvent(event, notEmpty, d) == notEmpty \/ d = "Zero"
Nowait(event, notEmpty, d) == event \/ notEmpty \/ d = "Zero"

\* The timeout built for every duration, the filter on nowait left out.
TimeoutScheduled_Unfiltered(nw, d) == d # "None"

\* Lines 120-129: dur.filter(|_| !nowait) is Some.
TimeoutScheduled(nw, d) == d = "Some" /\ ~nw

\* Lines 104-113 and 120-129: the internal entries of this call, in the
\* order they are pushed.
Scheduled(event, nw, d) ==
    (IF event THEN <<user_data("readv_eventfd", EVENT_TOKEN)>> ELSE <<>>)
    \o (IF TimeoutScheduled(nw, d)
        THEN <<user_data("timeout", TIMEOUT_TOKEN)>> ELSE <<>>)

\* Lines 136-144: `let _ = sq.push(entry)` for each scheduled entry; the
\* view refuses an entry when its own length has reached the capacity.
RECURSIVE PushAll(_, _, _)
PushAll(len, pushed, es) ==
    IF es = <<>> THEN pushed
    ELSE IF len + Len(pushed) >= SqEntries
         THEN PushAll(len, pushed, Tail(es))
         ELSE PushAll(len, Append(pushed, Head(es)), Tail(es))

\* The park locals once the call has returned.
ParkLocalsDropped ==
    /\ dur' = "None"
    /\ cqIsNotEmpty' = FALSE
    /\ nowait' = FALSE
    /\ sqAvailLen' = 0
    /\ sqLocal' = <<>>
    /\ cqAvailHead' = 0
    /\ cqAvailTail' = 0

\* An error return that forgets the completion view: its head is not
\* published.
ParkFail_HeadKept(e, pushed, localHead) ==
    /\ parkResult' = e
    /\ sq' = sq \o pushed
    /\ cqHead' = cqHead
    /\ ParkLocalsDropped
    /\ pc' = "idle"

\* park returns Err(e) through `?`: the views are dropped (the submission
\* tail and the completion head are published), clean() is not reached.
ParkFail(e, pushed, localHead) ==
    /\ parkResult' = e
    /\ sq' = sq \o pushed
    /\ cqHead' = CqRelease(localHead)
    /\ ParkLocalsDropped
    /\ pc' = "idle"

\* Lines 95-144: take both views, note cq_is_not_empty, first drain; read
\* the flag, decide nowait, schedule the internal entries, make room with
\* submit() when the view lacks it, push them into the view.
ParkCall ==
    /\ alive
    /\ pc = "idle"
    /\ calls < MaxCalls
    /\ calls' = calls + 1
    /\ pushResult' = "none"
    /\ Deliver(cq_drain(CqView(cqHead, Len(cqes))))
    /\ hist' = [HistInit EXCEPT !.pendingAtCall = flag, !.mark = Len(cqes)]
    /\ \E d \in Durations :
         LET notEmpty == Len(cqes) - cqHead # 0
             nw == Nowait(flag, notEmpty, d)
             es == Scheduled(flag, nw, d)
             proceed ==
                 /\ dur' = d
                 /\ cqIsNotEmpty' = notEmpty
                 /\ nowait' = nw
                 /\ sqAvailLen' = Len(sq)
                 /\ sqLocal' = PushAll(Len(sq), <<>>, es)
                 /\ cqAvailHead' = Len(cqes)
                 /\ cqAvailTail' = Len(cqes)
                 /\ parkResult' = "running"
                 /\ pc' = "park_submit"
                 /\ UNCHANGED cqHead
         IN  IF SqEntries - Len(sq) < Len(es)
             THEN \/ \E n \in TakeCounts : KernelTake(n) /\ proceed
                  \/ \E e \in Errnos :
                       /\ ParkFail(e, <<>>, Len(cqes))
                       /\ UNCHANGED inflight
             ELSE proceed /\ UNCHANGED <<sq, inflight>>
    /\ UNCHANGED <<alive, handles, cqes, pushVars, nextTicket, rx, polled,
                   wakeVars>>

\* Lines 146-150: submit() when nowait, else submit_and_wait(1), which
\* submits and then sleeps until the ring holds a completion.
ParkSubmit ==
    /\ pc = "park_submit"
    /\ \/ \E n \in TakeCounts :
            /\ KernelTake(n)
            /\ pc' = IF nowait THEN "park_drain2" ELSE "park_wait"
            /\ hist' = [hist EXCEPT !.blocked = ~nowait, !.mark = Len(cqes)]
            /\ UNCHANGED <<parkVars, cqHead, parkResult>>
       \/ \E e \in Errnos :
            /\ ParkFail(e, sqLocal, cqAvailHead)
            /\ UNCHANGED <<inflight, hist>>
    /\ UNCHANGED <<alive, handles, cqes, pushVars, ticketVars, wakeVars,
                   pushResult, calls>>

\* submit_and_wait(1) returns once the kernel sees a completion in the ring.
ParkWake ==
    /\ pc = "park_wait"
    /\ Len(cqes) - cqHead >= 1
    /\ pc' = "park_drain2"
    /\ hist' = [hist EXCEPT !.mark = Len(cqes)]
    /\ UNCHANGED <<alive, handles, ringVars, parkVars, pushVars, ticketVars,
                   wakeVars, pushResult, parkResult, calls>>

\* Line 157, self.eventfd.clean(): the wake signal goes back to idle.
clean_Skipped(pending) == pending

clean(pending) == FALSE

\* Lines 152-160: cq.sync() publishes the head and reloads the tail; the
\* second drain; eventfd.clean(); Ok(()), and the views are dropped.
ParkFinish ==
    /\ pc = "park_drain2"
    /\ LET tail == CqSyncTail(cqAvailTail)
       IN  /\ Deliver(cq_drain(CqView(cqAvailHead, tail)))
           /\ cqHead' = CqRelease(tail)
    /\ flag' = clean(flag)
    /\ evReady' = clean(evReady)
    /\ parkResult' = "Ok"
    /\ sq' = sq \o sqLocal
    /\ ParkLocalsDropped
    /\ pc' = "idle"
    /\ UNCHANGED <<alive, handles, inflight, cqes, pushVars, nextTicket, rx,
                   polled, pushResult, calls, hist>>

Next ==
    \/ Signal
    \/ KernelComplete
    \/ handle
    \/ DropProactor
    \/ \E t \in Tickets : Poll(t)
    \/ \E t \in Tickets : DropConsumer(t)
    \/ PushCall
    \/ PushTry
    \/ PushFlush
    \/ PushRetry
    \/ ParkCall
    \/ ParkSubmit
    \/ ParkWake
    \/ ParkFinish

Spec == Init /\ [][Next]_vars

\* The owning thread runs a started push call to its end.
FairSpec == Spec /\ WF_vars(PushTry) /\ WF_vars(PushFlush) /\ WF_vars(PushRetry)

(***************************************************************************)
(* Properties.                                                             *)
(***************************************************************************)
Sentinels == {0, 2 ^ WordBits - 1}

\* Number of Ticket::set calls made on ticket t.
SetCount(t) ==
    Cardinality({i \in 1 .. Len(deliverLog) :
                    deliverLog[i].user_data = into_raw(t)})

\* Number of records carrying ticket t's identity anywhere in the ring.
RecordCount(t) ==
    LET inSeq(q) == Cardinality({i \in 1 .. Len(q) : q[i].user_data = into_raw(t)})
    IN  inSeq(sq) + inSeq(sqLocal) + inSeq(cqes)
        + CopiesIn(user_data("user", into_raw(t)), inflight)

IsPrefix(p, q) == Len(p) <= Len(q) /\ SubSeq(q, 1, Len(p)) = p

\* The completions the kernel has reported for tickets, in report order.
ReportedTickets == SelectSeq(cqes, LAMBDA c : c.user_data \notin Sentinels)

\* C1. Single delivery: every set call made by a drain (in park or in
\* push) names a ticket whose completion the kernel reported, no ticket is
\* set twice, a consumer is never ready before its delivery, and a ready
\* consumer holds the one completion delivered to its ticket.
C1_SingleDelivery ==
    /\ \A i \in 1 .. Len(deliverLog) :
         /\ \E t \in Tickets : deliverLog[i].user_data = into_raw(t)
         /\ \E j \in 1 .. Len(cqes) : cqes[j] = deliverLog[i]
    /\ \A t \in Tickets :
         /\ SetCount(t) <= 1
         /\ SetCount(t) = 0 => value[t] = NoValue /\ polled[t].state = "pending"
         /\ SetCount(t) = 1 => tx[t] = "set" /\ value[t].user_data = into_raw(t)
         /\ polled[t].state = "ready" =>
               /\ SetCount(t) = 1
               /\ polled[t].item = value[t]
               /\ \E i \in 1 .. Len(deliverLog) : deliverLog[i] = polled[t].item

C1_Witness ==
    \E t \in Tickets :
        SetCount(t) = 1 /\ polled[t].state = "ready" /\ parkResult = "Ok"

\* C2. A completion carrying a reserved sentinel is consumed by the drains
\* without a set call, no ticket ever holds one, and the wake-read and
\* timeout records of park carry exactly 0 and the maximum word.
C2_SentinelsDiscarded ==
    /\ \A i \in 1 .. Len(deliverLog) : deliverLog[i].user_data \notin Sentinels
    /\ \A t \in Tickets :
         value[t] # NoValue => value[t].user_data \notin Sentinels
    /\ \A e \in BagToSet(inflight) \cup {sq[i] : i \in 1 .. Len(sq)}
                \cup {sqLocal[i] : i \in 1 .. Len(sqLocal)} :
         /\ e.op = "readv_eventfd" => e.user_data = 0
         /\ e.op = "timeout" => e.user_data = 2 ^ WordBits - 1
         /\ e.op = "user" => e.user_data \notin Sentinels

C2_Witness ==
    /\ pc = "idle"
    /\ \E i \in 1 .. cqHead : cqes[i].user_data = 2 ^ WordBits - 1
    /\ \E i \in 1 .. cqHead : cqes[i].user_data \notin Sentinels

\* C3. Nowait correctness: a park call made while the wake signal was
\* pending never enters submit_and_wait.
C3_NowaitCorrect ==
    hist.pendingAtCall => ~hist.blocked /\ pc # "park_wait"

C3_Witness ==
    /\ pc = "park_drain2"
    /\ hist.pendingAtCall
    /\ ~cqIsNotEmpty
    /\ dur = "Some"
    /\ Len(cqes) = cqAvailHead

\* C4. A signal() made while park sits in submit_and_wait ends that wait
\* without an I/O completion or timeout: the ring already holds a
\* completion, or a read of the event object is in flight to complete.
C4_SignalInterruptsWait ==
    (pc = "park_wait" /\ hist.sigInWait) =>
        \/ Len(cqes) - cqHead >= 1
        \/ \E e \in BagToSet(inflight) : e.op = "readv_eventfd"

\* C5. Park completeness: when park returns Ok, every completion posted
\* before its submit step ended has left the queue, and each of them is a
\* sentinel or has been delivered.
C5_ParkComplete ==
    (pc = "idle" /\ parkResult = "Ok") =>
        /\ cqHead >= hist.mark
        /\ \A i \in 1 .. hist.mark :
             \/ cqes[i].user_data \in Sentinels
             \/ \E k \in 1 .. Len(deliverLog) : deliverLog[k] = cqes[i]

C5_Witness ==
    /\ pc = "idle"
    /\ parkResult = "Ok"
    /\ hist.blocked
    /\ calls = 2
    /\ hist.mark = 1
    /\ cqes[1].user_data \notin Sentinels

\* C6. Drain ordering: the set calls follow the kernel's report order of
\* ticket completions, none skipped.
C6_DrainOrder == IsPrefix(deliverLog, ReportedTickets)

C6_Witness ==
    /\ Len(deliverLog) = 2
    /\ deliverLog[1].user_data = into_raw(2)
    /\ deliverLog[2].user_data = into_raw(1)

\* C7. Weak handle invalidation: once the Proactor is gone it stays gone,
\* and every push call returns NotConnected, allocates no ticket and
\* enqueues nothing.
C7_HandleInvalidated ==
    [][~alive =>
         /\ ~alive'
         /\ pc' = "idle"
         /\ nextTicket' = nextTicket
         /\ tx' = tx
         /\ sq' = sq
         /\ entry' = entry
         /\ (pushResult' # pushResult => pushResult' = "NotConnected")]_vars

C7_Witness == ~alive /\ pushResult = "NotConnected" /\ nextTicket > 1

\* C8. Backpressure liveness: a push that found the submission queue full
\* flushes; it never stays in the loop; once the kernel has accepted a
\* flush the call goes on to return Ok; and a push that found the queue
\* full returns Ok only after an accepted flush.
C8_Backpressure ==
    /\ [](pc = "idle" /\ pushResult = "Ok" /\ hist.wasFull => hist.flushed)
    /\ [][pc = "push_try" /\ hist.flushed /\ pc' # pc
             => pc' = "idle" /\ pushResult' = "Ok"]_vars
    /\ (pc \in {"push_try", "push_flush", "push_retry"} ~> pc = "idle")

C8_Witness ==
    pc = "idle" /\ pushResult = "Ok" /\ hist.wasFull /\ hist.flushed

\* C9. Transient submission pressure is never surfaced: neither push nor
\* park returns EBUSY.
C9_BusyAbsorbed == pushResult # "EBUSY" /\ parkResult # "EBUSY"

\* C10. Exactly one record with a ticket's identity is in the ring for a
\* push that returned Ok, none for a push that returned an error or has
\* not enqueued yet; no call removes or duplicates a record.
C10_OneRecord ==
    \A t \in Tickets :
        /\ rx[t] \in {"returned", "dropped"} => RecordCount(t) = 1
        /\ rx[t] \in {"unalloc", "held", "failed"} => RecordCount(t) = 0

C10_Witness ==
    /\ pc = "idle"
    /\ \E t \in Tickets : rx[t] = "returned" /\ RecordCount(t) = 1
    /\ \E t \in Tickets : rx[t] = "failed"

\* C11. Timeout-only wakeup: a park call with a finite non-zero duration
\* that sleeps in submit_and_wait while a ticket's operation is still in
\* flight and no wake is pending has its timeout operation in flight, so
\* that the timeout's completion ends the sleep.
C11_TimeoutArmed ==
    (/\ pc = "park_wait"
     /\ dur = "Some"
     /\ ~hist.pendingAtCall
     /\ \E e \in BagToSet(inflight) : e.op = "user") =>
        \E e \in BagToSet(inflight) : e.op = "timeout"

\* C12. Sentinel exclusion: every user record that sits in the submission
\* queue, is being enqueued or is in flight carries the identity of an
\* allocated ticket, and that identity is neither the wake token nor the
\* timeout token.
C12_SentinelExclusion ==
    \A e \in BagToSet(inflight) \cup {sq[i] : i \in 1 .. Len(sq)} \cup {entry} :
        e.op = "user" =>
            /\ e.user_data # EVENT_TOKEN
            /\ e.user_data # TIMEOUT_TOKEN
            /\ \E t \in 1 .. nextTicket - 1 : e.user_data = into_raw(t)

C12_Witness ==
    /\ \E e \in BagToSet(inflight) : e.op = "user"
    /\ Len(sq) >= 1
    /\ sq[1].op = "user"
    /\ \E i \in 1 .. Len(cqes) : cqes[i].user_data = TIMEOUT_TOKEN

ParkPcs == {"park_submit", "park_wait", "park_drain2"}

\* C13. Unconditional rearm, as the code has it: a park call that returns
\* Ok leaves the wake signal idle, the reset is the returning step of such
\* a call and no other step of the program clears the signal; a park call
\* that returns an error does not touch the signal.
C13_RearmOnOk ==
    [][/\ (pc \in ParkPcs /\ pc' = "idle" /\ parkResult' = "Ok") =>
             ~flag' /\ ~evReady'
       /\ (flag /\ ~flag') =>
             pc = "park_drain2" /\ pc' = "idle" /\ parkResult' = "Ok"
       /\ (pc \in ParkPcs /\ pc' = "idle" /\ parkResult' \in Errnos) =>
             flag' = flag /\ evReady' = evReady]_vars

C13_Witness ==
    /\ pc = "idle"
    /\ parkResult = "Ok"
    /\ hist.pendingAtCall
    /\ ~flag
    /\ \E i \in 1 .. cqHead : cqes[i].user_data = EVENT_TOKEN

\* C13 as stated: every return of park, with Ok or with an error, leaves
\* the wake signal idle.
C13_RearmOnEveryReturn ==
    [][(pc \in ParkPcs /\ pc' = "idle") => ~flag']_vars

\* C14. Internal records reach the kernel: when park is about to issue its
\* final submit or submit_and_wait, every internal record scheduled for
\* the call (the wake-read when the signal was pending, the timeout when
\* the call will sleep with a duration) is in the submission queue that
\* the submit hands to the kernel.
C14_ScheduledInQueue ==
    pc = "park_submit" =>
        LET es == Scheduled(hist.pendingAtCall, nowait, dur)
        IN  \A i \in 1 .. Len(es) : \E j \in 1 .. Len(sq) : sq[j] = es[i]

\* C15. Mode decision: park runs nowait exactly when the wake signal was
\* pending at its check, or its first drain found a completion, or the
\* duration is zero; it sleeps in submit_and_wait exactly when it is not
\* nowait; it pushes a timeout record exactly when it is not nowait and a
\* duration was given, and a wake-read record exactly when the signal was
\* pending (the pushes being observable when the view had room).
C15_ModeDecision ==
    pc \in ParkPcs =>
        LET pend == hist.pendingAtCall
            found == cqAvailHead > cqHead
            nw == pend \/ found \/ dur = "Zero"
            has(o) == \E i \in 1 .. Len(sqLocal) : sqLocal[i].op = o
        IN  /\ nowait = nw
            /\ cqIsNotEmpty = found
            /\ pc = "park_wait" => ~nw
            /\ pc = "park_drain2" => (hist.blocked <=> ~nw)
            /\ sqAvailLen < SqEntries =>
                 /\ has("readv_eventfd") <=> pend
                 /\ has("timeout") <=> (~nw /\ dur # "None")

C15_Witness ==
    /\ pc = "park_wait"
    /\ dur = "Some"
    /\ sqLocal = <<[op |-> "timeout", user_data |-> TIMEOUT_TOKEN]>>
    /\ cqHead >= 1

\* C16. Fatal submit failure: when push returns an error other than the
\* busy condition, the producer of the ticket it allocated has been
\* released: it is not left outstanding as a raw identity, and nothing
\* was delivered to it.
C16_ProducerReleased ==
    (pc = "idle" /\ pushResult \in Errnos \ {"EBUSY"}) =>
        /\ rx[nextTicket - 1] = "failed"
        /\ value[nextTicket - 1] = NoValue
        /\ tx[nextTicket - 1] # "raw"

\* C17. Partial drain preserved across an error: every completion that has
\* left the queue is a sentinel or was delivered, once, to its ticket; and
\* when park has returned an error, the completions its first drain
\* consumed have left the queue, so that no later drain sees them again.
C17_PartialDrainKept ==
    /\ \A i \in 1 .. cqHead :
         \/ cqes[i].user_data \in Sentinels
         \/ \E t \in Tickets :
              /\ cqes[i].user_data = into_raw(t)
              /\ SetCount(t) = 1
              /\ value[t] = cqes[i]
    /\ \A t \in Tickets : SetCount(t) <= 1
    /\ (pc = "idle" /\ parkResult \in Errnos) => cqHead >= hist.mark

\* push, push (flushing the first record to the kernel), the first
\* record's completion, then a park whose first drain delivers it and
\* whose submit fails.
C17_Witness ==
    /\ pc = "idle"
    /\ parkResult \in Errnos
    /\ calls = 3
    /\ nextTicket = 3
    /\ hist.mark = 1
    /\ cqHead = 1
    /\ SetCount(1) = 1

\* C18. No wake lost to the reset: the reset at the end of park clears the
\* wake signal only when this call saw it pending at its check and ran
\* nowait; a signal raised after the check is left pending for the next
\* call to see.
C18_ResetKeepsUnseenSignal ==
    [][(pc = "park_drain2" /\ pc' = "idle" /\ flag /\ ~hist.pendingAtCall)
         => flag']_vars

\* C19. Abandoned ticket: dropping a consumer before its delivery leaves
\* the operation's record in the ring; the drains go on past its
\* completion, so every ticket completion that has left the queue was set
\* in report order, and the abandoned consumer never reads a value.
C19_AbandonedHarmless ==
    /\ \A t \in Tickets :
         rx[t] = "dropped" =>
             /\ RecordCount(t) = 1
             /\ polled[t].state = "pending"
    /\ LET drained == IF pc \in ParkPcs THEN cqAvailHead ELSE cqHead
       IN  deliverLog = SelectSeq(SubSeq(cqes, 1, drained),
                                  LAMBDA c : c.user_data \notin Sentinels)

C19_Witness ==
    \E t, u \in Tickets :
        /\ rx[t] = "dropped"
        /\ polled[u].state = "ready"
        /\ \E i, j \in 1 .. Len(deliverLog) :
             /\ i < j
             /\ deliverLog[i].user_data = into_raw(t)
             /\ deliverLog[j].user_data = into_raw(u)

\* C20. Teardown with outstanding operations: the step that destroys the
\* Proactor and every step after it make no set call, reconstitute no
\* producer and release no completion; a consumer that was not delivered
\* to before the teardown never becomes ready.
C20_TeardownNoDrain ==
    [][~alive' =>
         /\ deliverLog' = deliverLog
         /\ tx' = tx
         /\ value' = value
         /\ cqHead' = cqHead
         /\ \A t \in Tickets :
              (tx[t] = "raw" /\ polled[t].state = "pending")
                  => polled'[t].state = "pending"]_vars

C20_Witness ==
    /\ ~alive
    /\ \E t \in Tickets :
         /\ tx[t] = "raw"
         /\ rx[t] = "returned"
         /\ polled[t].state = "pending"
         /\ \E i \in cqHead + 1 .. Len(cqes) : cqes[i].user_data = into_raw(t)
    /\ \E t \in Tickets :
         /\ tx[t] = "raw"
         /\ \E e \in BagToSet(inflight) : e.user_data = into_raw(t)
====
